---- MODULE Spec2Model ----
(***************************************************************************)
(* Model of plugin-cryptoagent: the CoinGecko request cache and the asset  *)
(* resolver (service.ts) and the portfolio ledger kept in the agent's      *)
(* memory store (portfolio.ts).  Each async function is cut at its await   *)
(* points, so that concurrent requests interleave as they do on the event  *)
(* loop.  Numbers are exact rationals: IEEE rounding is not modelled.      *)
(***************************************************************************)
EXTENDS Integers, Sequences, FiniteSets, TLC

\* ------------------------------------------------------------------ bounds
\* Operations started in one run: of the ledger, and of the price service alone.
MaxOps == 2
MaxRequests == 2
\* How often the clock advances in one run: of the price service alone, and of
\* the ledger.
MaxTicks == 2
MaxLedgerTicks == 1
\* Database calls that throw in one run.
MaxDbFailures == 1

\* --------------------------------------------------------------- strings
\* A string is a tuple of one-character strings.
Upper == <<"A","B","C","D","E","F","G","H","I","J","K","L","M",
           "N","O","P","Q","R","S","T","U","V","W","X","Y","Z">>
Lower == <<"a","b","c","d","e","f","g","h","i","j","k","l","m",
           "n","o","p","q","r","s","t","u","v","w","x","y","z">>

LowerChar(c) ==
    IF \E i \in 1..26 : Upper[i] = c
    THEN Lower[CHOOSE i \in 1..26 : Upper[i] = c]
    ELSE c

UpperChar(c) ==
    IF \E i \in 1..26 : Lower[i] = c
    THEN Upper[CHOOSE i \in 1..26 : Lower[i] = c]
    ELSE c

toLowerCase(s) == [i \in 1..Len(s) |-> LowerChar(s[i])]
toUpperCase(s) == [i \in 1..Len(s) |-> UpperChar(s[i])]

IsSpace(c) == c \in {" ", "\t", "\n"}

\* String.prototype.trim, which the resolver's specification asks for and
\* getCryptoByIdOrSymbol does not call.
RECURSIVE TrimLeft(_)
TrimLeft(s) == IF s # <<>> /\ IsSpace(Head(s)) THEN TrimLeft(Tail(s)) ELSE s
RECURSIVE TrimRight(_)
TrimRight(s) ==
    IF s # <<>> /\ IsSpace(s[Len(s)]) THEN TrimRight(SubSeq(s, 1, Len(s) - 1)) ELSE s
trim(s) == TrimRight(TrimLeft(s))

\* ------------------------------------------------- the external price source
\* JavaScript's null and undefined, where a record may stand.
NONE == [null |-> TRUE]

s_bitcoin  == <<"b","i","t","c","o","i","n">>
s_ethereum == <<"e","t","h","e","r","e","u","m">>
s_btc      == <<"b","t","c">>

\* CryptoPrice records as the ranked-list endpoint returns them.
Bitcoin(p)  == [id |-> s_bitcoin,  symbol |-> s_btc,            name |-> "Bitcoin",
                current_price |-> p, price_change_percentage_24h |-> 2]
Ethereum(p) == [id |-> s_ethereum, symbol |-> <<"E","T","H">>,  name |-> "Ethereum",
                current_price |-> p, price_change_percentage_24h |-> -1]
\* An asset whose id is another asset's ticker.
BtcToken(p) == [id |-> s_btc,      symbol |-> <<"b","t","k">>,  name |-> "BTC Token",
                current_price |-> p, price_change_percentage_24h |-> 0]

\* The record of an asset after the source changed its display name.
Renamed(c, name) == [c EXCEPT !.name = name]

ListA == <<Bitcoin(150), Ethereum(20)>>
ListB == <<Ethereum(25), Renamed(Bitcoin(160), "Bitcoin Core"), BtcToken(1)>>

\* What a successful call of the ranked-list endpoint may return.
Payloads == {ListA, ListB}
\* A CryptoDetails record as the detail endpoint returns it.
BitcoinDetails == [id |-> s_bitcoin, symbol |-> s_btc, name |-> "Bitcoin",
                   market_data |-> [current_price |-> 150]]
\* How an external call fails: !response.ok, fetch rejects, response.json() rejects.
FailureKinds == {"status", "network", "json"}

\* ------------------------------------------------------------ service.ts
CACHE_DURATION == 60000
TOP_COUNT == 100
DEFAULT_COUNT == 10

\* The endpoint string of getTopCryptos(count): the cache key.
MarketsEndpoint(count) == <<"/coins/markets", "usd", count>>
\* The endpoint string of getCryptoDetails(id).
DetailsEndpoint(id) == <<"/coins", id>>
Keys == {MarketsEndpoint(TOP_COUNT), MarketsEndpoint(DEFAULT_COUNT), DetailsEndpoint(s_bitcoin)}
\* What a successful call of an endpoint may return.
PayloadsOf(endpoint) == IF endpoint[1] = "/coins" THEN {BitcoinDetails} ELSE Payloads

\* Mutant: an entry exactly CACHE_DURATION old still counts as fresh.
CacheFresh_Inclusive(entry, t) == entry # NONE /\ t - entry.timestamp <= CACHE_DURATION

\* apiRequest's cache test.
CacheFresh(entry, t) == entry # NONE /\ t - entry.timestamp < CACHE_DURATION

\* Mutant: the payload is stored under every key.
CacheStore_EveryKey(c, endpoint, data, t) ==
    [k \in DOMAIN c |-> [data |-> data, timestamp |-> t]]

\* apiRequest's cache update after response.json().
CacheStore(c, endpoint, data, t) ==
    [c EXCEPT ![endpoint] = [data |-> data, timestamp |-> t]]

\* The timestamp apiRequest stores (line 65): requestNow is its const now, read
\* before the cache test; storeNow is the clock when response.json() settled.
StoredTimestamp(requestNow, storeNow) == requestNow

\* Mutant: a failed call evicts the entry.
CacheOnFailure_Evict(c, endpoint) == [c EXCEPT ![endpoint] = NONE]

\* apiRequest's catch block (lines 68-71): the error is logged and rethrown.
CacheOnFailure(c, endpoint) == c

\* topCoins.find(c => c.id === normalized || c.symbol.toLowerCase() === normalized) || null
CoinMatches(c, normalized) == c.id = normalized \/ toLowerCase(c.symbol) = normalized

\* Mutant: a match by id is preferred to an earlier match by symbol.
FindCoin_IdFirst(topCoins, normalized) ==
    IF \E i \in 1..Len(topCoins) : topCoins[i].id = normalized
    THEN topCoins[CHOOSE i \in 1..Len(topCoins) : topCoins[i].id = normalized]
    ELSE IF \E i \in 1..Len(topCoins) : toLowerCase(topCoins[i].symbol) = normalized
    THEN topCoins[CHOOSE i \in 1..Len(topCoins) :
                     /\ toLowerCase(topCoins[i].symbol) = normalized
                     /\ \A j \in 1..(i - 1) : toLowerCase(topCoins[j].symbol) # normalized]
    ELSE NONE

\* Mutant: when nothing matches, the top-ranked asset is returned.
FindCoin_Fallback(topCoins, normalized) ==
    IF \E i \in 1..Len(topCoins) : CoinMatches(topCoins[i], normalized)
    THEN LET i == CHOOSE i \in 1..Len(topCoins) :
                    /\ CoinMatches(topCoins[i], normalized)
                    /\ \A j \in 1..(i - 1) : ~CoinMatches(topCoins[j], normalized)
         IN topCoins[i]
    ELSE IF topCoins # <<>> THEN topCoins[1] ELSE NONE

FindCoin(topCoins, normalized) ==
    IF \E i \in 1..Len(topCoins) : CoinMatches(topCoins[i], normalized)
    THEN LET i == CHOOSE i \in 1..Len(topCoins) :
                    /\ CoinMatches(topCoins[i], normalized)
                    /\ \A j \in 1..(i - 1) : ~CoinMatches(topCoins[j], normalized)
         IN topCoins[i]
    ELSE NONE

\* getCryptoByIdOrSymbol's normalization of its argument.
Normalize(idOrSymbol) == toLowerCase(idOrSymbol)

\* ------------------------------------------------------------- numbers
\* A JavaScript number is an exact fraction n/d with d > 0, or d = 0 for the
\* non-finite values: n = 0 is NaN, n = 1 is Infinity, n = -1 is -Infinity.
RECURSIVE GCD(_, _)
GCD(a, b) == IF b = 0 THEN a ELSE GCD(b, a % b)
Abs(x) == IF x < 0 THEN -x ELSE x
Sign(x) == IF x < 0 THEN -1 ELSE IF x > 0 THEN 1 ELSE 0

NaN == [n |-> 0, d |-> 0]
Frac(n, d) ==
    IF d = 0 THEN [n |-> Sign(n), d |-> 0]
    ELSE LET g == GCD(Abs(n), Abs(d)) IN [n |-> (Sign(d) * n) \div g, d |-> Abs(d) \div g]
Num(i) == [n |-> i, d |-> 1]
IsFinite(x) == x.d # 0

NumMul(x, y) ==
    IF IsFinite(x) /\ IsFinite(y) THEN Frac(x.n * y.n, x.d * y.d)
    ELSE [n |-> Sign(x.n) * Sign(y.n), d |-> 0]
NumAdd(x, y) ==
    IF IsFinite(x) /\ IsFinite(y) THEN Frac(x.n * y.d + y.n * x.d, x.d * y.d)
    ELSE IF IsFinite(x) THEN y
    ELSE IF IsFinite(y) THEN x
    ELSE IF x = y THEN x ELSE NaN
NumDiv(x, y) ==
    IF IsFinite(x) /\ IsFinite(y) THEN Frac(x.n * y.d, x.d * y.n)
    ELSE IF IsFinite(y) THEN [n |-> x.n * (IF y.n < 0 THEN -1 ELSE 1), d |-> 0]
    ELSE IF IsFinite(x) THEN Num(0)
    ELSE NaN
NumSub(x, y) == NumAdd(x, NumMul(Num(-1), y))
\* x <= 0 as JavaScript compares (false for NaN).
NumLeqZero(x) == IF IsFinite(x) THEN x.n <= 0 ELSE x.n = -1

\* ----------------------------------------------------------- portfolio.ts
\* The agent id written into getPortfolioMemory's query.
QUERY_AGENT_ID == "b850bc30-45f8-0041-a00a-83df46d8555d"
\* The ids a runtime may have: the one above, or another agent's.
AgentIds == {QUERY_AGENT_ID, "0f6a2c1e-7d3b-4c58-9e21-5a4b3c2d1e0f"}

Rep(c, k) == [i \in 1..k |-> c]
HexDigits == {"0","1","2","3","4","5","6","7","8","9",
              "a","b","c","d","e","f","A","B","C","D","E","F"}
\* /^[0-9a-f]{8}-[0-9a-f]{4}-[0-9a-f]{4}-[0-9a-f]{4}-[0-9a-f]{12}$/i
IsUUID(value) ==
    /\ Len(value) = 36
    /\ \A i \in 1..36 :
          IF i \in {9, 14, 19, 24} THEN value[i] = "-" ELSE value[i] \in HexDigits

\* The owners of the model: one userId of UUID form, one that is not.
UUID_OWNER ==
    Rep("1", 8) \o <<"-">> \o Rep("a", 4) \o <<"-">> \o Rep("4", 4) \o <<"-">>
    \o Rep("B", 4) \o <<"-">> \o Rep("2", 12)
PLAIN_OWNER == <<"u","s","e","r","-","1">>
\* A second userId of UUID form.
UUID_OWNER_B ==
    Rep("9", 8) \o <<"-">> \o Rep("c", 4) \o <<"-">> \o Rep("4", 4) \o <<"-">>
    \o Rep("a", 4) \o <<"-">> \o Rep("7", 12)
Owners == {UUID_OWNER, PLAIN_OWNER}

\* uuidv4(): a new identifier; call number n of operation number opId.
uuidv4(opId, n) == <<"uuidv4", opId, n>>

\* ensureUUID(value): value itself when it has UUID form, else a new uuidv4().
ensureUUID(value, opId, n) == IF IsUUID(value) THEN value ELSE uuidv4(opId, n)

\* db.getMemories({roomId, tableName, count, agentId}): the stored memories of
\* that room and agent.
DbGetMemories(db, roomId, agent) ==
    {i \in 1..Len(db) : db[i].roomId = roomId /\ db[i].agentId = agent}

\* getPortfolioMemory's filter and sort: the candidates for portfolioMemories[0],
\* the matching memories of greatest createdAt (index set; empty: null).
PortfolioMemories(db, userId, opId, n) ==
    LET hits == {i \in DbGetMemories(db, ensureUUID(userId, opId, n), QUERY_AGENT_ID) :
                    /\ db[i].content.action = "CRYPTO_PORTFOLIO"
                    /\ db[i].content.userId = userId}
    IN {i \in hits : \A j \in hits : db[j].createdAt <= db[i].createdAt}

\* Mutant: the positions are searched by ticker.
FindIndex_BySymbol(portfolio, coinId) ==
    IF \E i \in 1..Len(portfolio) : portfolio[i].symbol = coinId
    THEN CHOOSE i \in 1..Len(portfolio) :
            /\ portfolio[i].symbol = coinId
            /\ \A j \in 1..(i - 1) : portfolio[j].symbol # coinId
    ELSE 0

\* findIndex(item => item.coinId === coin.id): 0 stands for -1.
FindIndex(portfolio, coinId) ==
    IF \E i \in 1..Len(portfolio) : portfolio[i].coinId = coinId
    THEN CHOOSE i \in 1..Len(portfolio) :
            /\ portfolio[i].coinId = coinId
            /\ \A j \in 1..(i - 1) : portfolio[j].coinId # coinId
    ELSE 0

NewItem(coin, quantity, purchasePrice, t) ==
    [coinId |-> coin.id, symbol |-> toUpperCase(coin.symbol), name |-> coin.name,
     quantity |-> quantity, purchasePrice |-> purchasePrice, purchaseDate |-> t]

\* Mutant: the plain mean of the two prices.
NewAveragePrice_Mean(existingItem, quantity, purchasePrice) ==
    NumDiv(NumAdd(existingItem.purchasePrice, purchasePrice), Num(2))

\* The new average price of an existing position.
NewAveragePrice(existingItem, quantity, purchasePrice) ==
    NumDiv(NumAdd(NumMul(existingItem.quantity, existingItem.purchasePrice),
                  NumMul(quantity, purchasePrice)),
           NumAdd(existingItem.quantity, quantity))

UpdatedItem(existingItem, quantity, purchasePrice, t) ==
    [existingItem EXCEPT !.quantity = NumAdd(existingItem.quantity, quantity),
                         !.purchasePrice = NewAveragePrice(existingItem, quantity, purchasePrice),
                         !.purchaseDate = t]

\* addToPortfolio lines 69-105: the portfolio with the purchase merged in.
MergedPortfolio(portfolio, coin, quantity, purchasePrice, t) ==
    LET k == FindIndex(portfolio, coin.id) IN
    IF k > 0
    THEN [portfolio EXCEPT ![k] = UpdatedItem(portfolio[k], quantity, purchasePrice, t)]
    ELSE Append(portfolio, NewItem(coin, quantity, purchasePrice, t))

\* savePortfolio's updatedMemory and portfolioMemory.
UpdatedMemory(existingMemory, userId, portfolio, t) ==
    [existingMemory EXCEPT !.content =
        [existingMemory.content EXCEPT !.userId = userId, !.items = portfolio, !.lastUpdated = t]]

CreatedMemory(opId, userId, agent, portfolio, t) ==
    [id |-> uuidv4(opId, 4), roomId |-> ensureUUID(userId, opId, 2), agentId |-> agent,
     content |-> [action |-> "CRYPTO_PORTFOLIO", userId |-> userId,
                  items |-> portfolio, lastUpdated |-> t],
     createdAt |-> t]

\* Mutant: the update replaces every memory of the table.
DbUpdateMemory_Every(db, id, memory) == [i \in 1..Len(db) |-> memory]

\* db.updateMemory(id, memory) and db.createMemory(memory).
DbUpdateMemory(db, id, memory) ==
    [i \in 1..Len(db) |-> IF db[i].id = id THEN memory ELSE db[i]]
DbCreateMemory(db, memory) == Append(db, memory)

\* ------------------------------------------------------------------ state
VARIABLES
    now,        \* Date.now()
    ticks,      \* how often the clock has advanced
    cache,      \* service.ts cache: endpoint -> NONE or [data, timestamp]
    extCalls,   \* endpoint -> number of fetch(url) calls issued so far
    store,      \* the database adapter's "memories" table, in insertion order
    agentId,    \* runtime.agentId
    ops,        \* operations started so far
    dbFailures, \* database calls that have thrown so far
    pr          \* per request: the locals of the operation it runs

vars == <<now, ticks, cache, extCalls, store, agentId, ops, dbFailures, pr>>

Procs == {"r1", "r2"}

\* The arguments callers pass.
Idents == {s_bitcoin, <<"B","T","C">>, <<" ","b","t","c">>}
\* coinId, quantity, purchasePrice
Purchases == {<<(<<"B","T","C">>), 1, 100>>, <<s_bitcoin, 3, 140>>,
              <<(<<"B","T","C">>), 0, 50>>, <<(<<"d","o","g","e">>), 1, 100>>}
Counts == {TOP_COUNT, DEFAULT_COUNT}
\* By how much the clock advances at its k-th step (ms): to 1 ms short of
\* the cache duration after the previous instant, then by that 1 ms.
Delay(k) == IF k % 2 = 1 THEN CACHE_DURATION - 1 ELSE 1

Idle ==
    [pc |-> "idle", op |-> "none", opId |-> 0, owner |-> <<>>, ident |-> <<>>,
     quantity |-> Num(0), purchasePrice |-> Num(0), key |-> <<>>, reqNow |-> 0,
     seen |-> NONE, called |-> FALSE, rq |-> FALSE, ext |-> "none", data |-> <<>>,
     coin |-> NONE,
     existingItem |-> NONE, portfolio |-> <<>>, idx |-> 0, mem |-> NONE, memOp |-> "none",
     wrote |-> 0, status |-> "none", result |-> NONE,
     \* history: the purchases the request's merges have written so far
     merged |-> <<>>]

Init ==
    /\ now = 0
    /\ ticks = 0
    /\ cache = [k \in Keys |-> NONE]
    /\ extCalls = [k \in Keys |-> 0]
    /\ store = <<>>
    /\ agentId \in AgentIds
    /\ ops = 0
    /\ dbFailures = 0
    /\ pr = [p \in Procs |-> Idle]

\* Requests are interchangeable: r1 is the one that starts first.
CanStart(p, max) ==
    /\ pr[p].pc \in {"idle", "done"}
    /\ ops < max
    /\ p = "r2" => pr["r1"].pc \notin {"idle", "done"}

\* The ledger's runs follow one owner: every operation is for the owner of
\* the first.
SameOwner(o) == pr["r1"].op = "none" \/ pr["r1"].owner = o

\* A new operation's locals.
Begin(p, op, owner, ident, quantity, purchasePrice) ==
    [Idle EXCEPT !.op = op, !.opId = ops + 1, !.owner = owner, !.ident = ident,
                 !.quantity = quantity, !.purchasePrice = purchasePrice,
                 !.rq = pr[p].rq, !.merged = pr[p].merged]

\* apiRequest up to its first await: the locals after the cache test, with the
\* payload in data on a hit and pc = "fetching" when fetch(url) was called.
\* rq flips at every call of apiRequest; ext tells how the external call of
\* the last apiRequest ended ("none": there was none).
ApiRequest(r, endpoint) ==
    LET entry == cache[endpoint] IN
    IF CacheFresh(entry, now)
    THEN [r EXCEPT !.key = endpoint, !.reqNow = now, !.seen = entry, !.called = FALSE,
                   !.rq = ~r.rq, !.ext = "none", !.data = entry.data, !.pc = "cached"]
    ELSE [r EXCEPT !.key = endpoint, !.reqNow = now, !.seen = entry, !.called = TRUE,
                   !.rq = ~r.rq, !.ext = "none", !.data = <<>>, !.pc = "fetching"]

\* The external calls after the request r was issued.
Issued(r) ==
    IF r.called THEN [extCalls EXCEPT ![r.key] = extCalls[r.key] + 1] ELSE extCalls

\* The operation has returned: its arguments and its outcome remain.
Done(r, status, result) ==
    [Idle EXCEPT !.pc = "done", !.op = r.op, !.opId = r.opId, !.owner = r.owner,
                 !.ident = r.ident, !.quantity = r.quantity,
                 !.purchasePrice = r.purchasePrice, !.key = r.key, !.rq = r.rq,
                 !.ext = r.ext, !.merged = r.merged,
                 !.coin = r.coin, !.existingItem = r.existingItem, !.wrote = r.wrote,
                 !.status = status, !.result = result]

\* ---- viewPortfolioAction.handler's valuation of what getPortfolio returned
\* 'currentPrice' in item
HasPrice(item) == "currentPrice" \in DOMAIN item
\* Mutant: the ratio is not turned into a percentage.
ProfitLossPercent_Ratio(profitLoss, invested) == NumDiv(profitLoss, invested)

\* (profitLoss / invested) * 100
ProfitLossPercent(profitLoss, invested) == NumMul(NumDiv(profitLoss, invested), Num(100))
\* The figures of one line of the reply (lines 325-328).
ViewRow(item) ==
    LET invested == NumMul(item.quantity, item.purchasePrice)
        currentValue == NumMul(item.quantity, Num(item.currentPrice))
        profitLoss == NumSub(currentValue, invested)
    IN [symbol |-> item.symbol, quantity |-> item.quantity,
        purchasePrice |-> item.purchasePrice, currentPrice |-> item.currentPrice,
        invested |-> invested, currentValue |-> currentValue,
        profitLoss |-> profitLoss,
        profitLossPercent |-> ProfitLossPercent(profitLoss, invested)]
\* The items the loop does not skip (line 321), in order.
PricedItems(items) == SelectSeq(items, HasPrice)
RECURSIVE SumInvested(_)
SumInvested(items) ==
    IF items = <<>> THEN Num(0)
    ELSE NumAdd(SumInvested(SubSeq(items, 1, Len(items) - 1)),
                ViewRow(items[Len(items)]).invested)
RECURSIVE SumCurrentValue(_)
SumCurrentValue(items) ==
    IF items = <<>> THEN Num(0)
    ELSE NumAdd(SumCurrentValue(SubSeq(items, 1, Len(items) - 1)),
                ViewRow(items[Len(items)]).currentValue)
\* totalInvested and totalCurrentValue after the loop (lines 331-332).
TotalInvested(items) == SumInvested(PricedItems(items))
TotalCurrentValue(items) == SumCurrentValue(PricedItems(items))
\* What the handler tells the user for getPortfolio's result (lines 306-356).
View(portfolio) ==
    IF portfolio = NONE \/ Len(portfolio.items) = 0
    THEN [reply |-> "unavailable"]
    ELSE LET priced == PricedItems(portfolio.items)
             totalInvested == TotalInvested(portfolio.items)
             totalCurrentValue == TotalCurrentValue(portfolio.items)
             totalProfitLoss == NumSub(totalCurrentValue, totalInvested)
         IN [reply |-> "portfolio",
             rows |-> [i \in 1..Len(priced) |-> ViewRow(priced[i])],
             totalInvested |-> totalInvested,
             totalCurrentValue |-> totalCurrentValue,
             totalProfitLoss |-> totalProfitLoss,
             totalProfitLossPercent |-> ProfitLossPercent(totalProfitLoss, totalInvested),
             lastUpdated |-> portfolio.lastUpdated]
\* What the operation hands back for getPortfolio's result: getPortfolio the
\* result itself, the handler its reply.
Returned(op, portfolio) == IF op = "view" THEN View(portfolio) ELSE portfolio

\* getCryptoByIdOrSymbol after getTopCryptos(100) settled: the coin or null.
ResolvedCoin(r, ok) == IF ok THEN FindCoin(r.data, Normalize(r.ident)) ELSE NONE

\* Mutant: a quote that fails ends the valuation as a whole.
Priced_AbortOnFailure(r, coin) ==
    LET item == r.result.items[r.idx]
        items == [r.result.items EXCEPT ![r.idx] =
                     IF coin = NONE THEN item
                     ELSE [currentPrice |-> coin.current_price,
                           priceChange24h |-> coin.price_change_percentage_24h] @@ item]
        res == [r.result EXCEPT !.items = items]
    IN IF coin = NONE
       THEN Done([r EXCEPT !.coin = coin], "returned", Returned(r.op, NONE))
       ELSE IF r.idx < Len(items)
       THEN [r EXCEPT !.coin = coin, !.result = res, !.idx = r.idx + 1, !.pc = "pricing"]
       ELSE Done([r EXCEPT !.coin = coin, !.idx = r.idx + 1], "returned", Returned(r.op, res))

\* getPortfolio's loop body after getCryptoByIdOrSymbol(item.coinId) returned
\* coin: the item gets the live fields when coin is not null; then the next item.
Priced(r, coin) ==
    LET item == r.result.items[r.idx]
        items == IF coin = NONE THEN r.result.items
                 ELSE [r.result.items EXCEPT ![r.idx] =
                          [currentPrice |-> coin.current_price,
                           priceChange24h |-> coin.price_change_percentage_24h] @@ item]
        res == [r.result EXCEPT !.items = items]
    IN IF r.idx < Len(items)
       THEN [r EXCEPT !.coin = coin, !.result = res, !.idx = r.idx + 1, !.pc = "pricing"]
       ELSE Done([r EXCEPT !.coin = coin, !.idx = r.idx + 1], "returned", Returned(r.op, res))

\* What each operation does when its apiRequest has settled (ok: it returned
\* r.data; otherwise it threw).
AfterRequest(r, ok) ==
    CASE r.op = "top" ->
            IF ok THEN Done(r, "returned", r.data) ELSE Done(r, "threw", <<>>)
      \* getCryptoDetails returns apiRequest's promise without awaiting it, so
      \* its try block has ended when the promise rejects.
      [] r.op = "details" ->
            IF ok THEN Done(r, "returned", r.data) ELSE Done(r, "threw", NONE)
      [] r.op = "resolve" ->
            Done([r EXCEPT !.coin = ResolvedCoin(r, ok)], "returned", ResolvedCoin(r, ok))
      [] r.op = "add" ->
            IF ResolvedCoin(r, ok) = NONE
            THEN Done(r, "returned", NONE)
            ELSE [r EXCEPT !.coin = ResolvedCoin(r, ok), !.pc = "read"]
      [] r.op \in {"get", "view"} -> Priced(r, ResolvedCoin(r, ok))

\* An operation starts and runs to its first await that does not settle at once.
Start(p, max, r0, endpoint) ==
    LET r == ApiRequest(r0, endpoint) IN
    /\ CanStart(p, max)
    /\ ops' = ops + 1
    /\ extCalls' = Issued(r)
    /\ pr' = [pr EXCEPT ![p] = IF r.pc = "cached" THEN AfterRequest(r, TRUE) ELSE r]
    /\ UNCHANGED <<now, ticks, cache, store, agentId, dbFailures>>

\* getTopCryptos(count)
StartTop(p) ==
    \E count \in Counts :
        Start(p, MaxRequests, Begin(p, "top", <<>>, <<>>, Num(0), Num(0)), MarketsEndpoint(count))

\* getCryptoByIdOrSymbol(idOrSymbol)
StartResolve(p) ==
    \E id \in Idents :
        Start(p, MaxRequests, Begin(p, "resolve", <<>>, id, Num(0), Num(0)), MarketsEndpoint(TOP_COUNT))

\* getCryptoDetails(id)
StartDetails(p) ==
    Start(p, MaxRequests, Begin(p, "details", <<>>, s_bitcoin, Num(0), Num(0)),
          DetailsEndpoint(s_bitcoin))

\* portfolioService.addToPortfolio(runtime, userId, coinId, quantity, purchasePrice)
StartAddFor(p, owners, purchases) ==
    \E o \in owners, b \in purchases :
        Start(p, MaxOps, Begin(p, "add", o, b[1], Num(b[2]), Num(b[3])), MarketsEndpoint(TOP_COUNT))
StartAddOf(p, purchases) == StartAddFor(p, {o \in Owners : SameOwner(o)}, purchases)
StartAdd(p) == StartAddOf(p, Purchases)

\* fetch(url) and response.json() settle: the payload is cached under the
\* request's own timestamp, or the call throws.
FetchOk(p) ==
    /\ pr[p].pc = "fetching"
    /\ \E data \in PayloadsOf(pr[p].key) :
         /\ cache' = CacheStore(cache, pr[p].key, data, StoredTimestamp(pr[p].reqNow, now))
         /\ pr' = [pr EXCEPT ![p] = AfterRequest([pr[p] EXCEPT !.data = data, !.ext = "ok"], TRUE)]
    /\ UNCHANGED <<now, ticks, extCalls, store, agentId, ops, dbFailures>>

FetchFail(p) ==
    /\ pr[p].pc = "fetching"
    /\ \E kind \in FailureKinds :
         /\ cache' = CacheOnFailure(cache, pr[p].key)
         /\ pr' = [pr EXCEPT ![p] = AfterRequest([pr[p] EXCEPT !.ext = "failed"], FALSE)]
    /\ UNCHANGED <<now, ticks, extCalls, store, agentId, ops, dbFailures>>

\* Time passes.  Only operations read the clock: it advances between the
\* first operation's start and the last one's return.
Elapse(maxTicks, maxOps, d) ==
    /\ ticks < maxTicks
    /\ ops > 0
    /\ ops < maxOps \/ \E p \in Procs : pr[p].pc \notin {"idle", "done"}
    /\ now' = now + d
    /\ ticks' = ticks + 1
    /\ UNCHANGED <<cache, extCalls, store, agentId, ops, dbFailures, pr>>

Tick == Elapse(MaxTicks, MaxRequests, Delay(ticks + 1))
\* In the ledger's runs a cache duration passes between two operations.
LedgerTick ==
    /\ \A p \in Procs : pr[p].pc \in {"idle", "done"}
    /\ Elapse(MaxLedgerTicks, MaxOps, CACHE_DURATION)

\* The outcomes of a database call: it returns (TRUE) or throws (FALSE).
NoFault == {TRUE}
Faults == BOOLEAN

\* A database call settles: it returns (ok) or throws.
DbOutcome(ok) ==
    /\ ok \in BOOLEAN
    /\ ~ok => dbFailures < MaxDbFailures
    /\ dbFailures' = IF ok THEN dbFailures ELSE dbFailures + 1

\* getPortfolioMemory settles: one of the newest matching memories, or null
\* (none matches, or db.getMemories threw).
Lookup(ok, userId, opId, n) ==
    IF ok /\ PortfolioMemories(store, userId, opId, n) # {}
    THEN {store[i] : i \in PortfolioMemories(store, userId, opId, n)}
    ELSE {NONE}

\* content.items || []
ItemsOf(memory) == IF memory = NONE THEN <<>> ELSE memory.content.items

\* addToPortfolio lines 57-108: the owner's portfolio is read, the purchase is
\* merged into it and savePortfolio is entered.
ReadMemory(p, oks) ==
    LET r == pr[p] IN
    /\ r.pc = "read"
    /\ \E ok \in oks :
         /\ DbOutcome(ok)
         /\ \E portfolioMemory \in Lookup(ok, r.owner, r.opId, 1) :
              LET portfolio == ItemsOf(portfolioMemory)
                  k == FindIndex(portfolio, r.coin.id)
              IN pr' = [pr EXCEPT ![p] =
                          [r EXCEPT !.existingItem = IF k > 0 THEN portfolio[k] ELSE NONE,
                                    !.idx = k,
                                    !.portfolio = MergedPortfolio(portfolio, r.coin, r.quantity,
                                                                  r.purchasePrice, now),
                                    !.pc = "saveRead"]]
    /\ UNCHANGED <<now, ticks, cache, extCalls, store, agentId, ops>>

\* savePortfolio lines 245-283: the memory to write is built from the memory
\* found now.
SaveRead(p, oks) ==
    LET r == pr[p] IN
    /\ r.pc = "saveRead"
    /\ \E ok \in oks :
         /\ DbOutcome(ok)
         /\ \E existingMemory \in Lookup(ok, r.owner, r.opId, 3) :
              pr' = [pr EXCEPT ![p] =
                        [r EXCEPT !.mem = IF existingMemory # NONE
                                          THEN UpdatedMemory(existingMemory, r.owner, r.portfolio, now)
                                          ELSE CreatedMemory(r.opId, r.owner, agentId, r.portfolio, now),
                                  !.memOp = IF existingMemory # NONE THEN "update" ELSE "create",
                                  !.pc = "saveWrite"]]
    /\ UNCHANGED <<now, ticks, cache, extCalls, store, agentId, ops>>

\* addToPortfolio's return value (line 111).
AddResult(r) == IF r.idx > 0 THEN r.portfolio[r.idx] ELSE r.portfolio[Len(r.portfolio)]

\* db.updateMemory or db.createMemory settles; addToPortfolio returns.
SaveWrite(p, oks) ==
    LET r == pr[p] IN
    /\ r.pc = "saveWrite"
    /\ \E ok \in oks :
         /\ DbOutcome(ok)
         /\ IF ok
            THEN /\ store' = IF r.memOp = "update"
                             THEN DbUpdateMemory(store, r.mem.id, r.mem)
                             ELSE DbCreateMemory(store, r.mem)
                 /\ pr' = [pr EXCEPT ![p] =
                             Done([r EXCEPT !.wrote = r.wrote + 1,
                                            !.merged = Append(r.merged, <<r.coin.id, r.quantity,
                                                                          r.purchasePrice>>)],
                                  "returned", AddResult(r))]
            ELSE /\ store' = store
                 /\ pr' = [pr EXCEPT ![p] = Done(r, "returned", NONE)]
    /\ UNCHANGED <<now, ticks, cache, extCalls, agentId, ops>>

\* addToPortfolioAction.handler's reply to the user for what addToPortfolio
\* returned: "I couldn't find a cryptocurrency matching ..." for null.
AddReply(result) == IF result = NONE THEN "notFound" ELSE "added"

\* portfolioService.hasPortfolio(runtime, userId)
HasPortfolio(p, oks) ==
    /\ CanStart(p, MaxOps)
    /\ ops' = ops + 1
    /\ \E o \in Owners, ok \in oks :
         /\ SameOwner(o)
         /\ DbOutcome(ok)
         /\ \E portfolioMemory \in Lookup(ok, o, ops + 1, 1) :
              pr' = [pr EXCEPT ![p] =
                        Done(Begin(p, "has", o, <<>>, Num(0), Num(0)), "returned",
                             Len(ItemsOf(portfolioMemory)) > 0)]
    /\ UNCHANGED <<now, ticks, cache, extCalls, store, agentId>>

\* getPortfolio lines 128-147 for what getPortfolioMemory returned: null is
\* returned, or the pricing loop is entered.
GetLoaded(r, portfolioMemory) ==
    LET portfolio == ItemsOf(portfolioMemory) IN
    IF Len(portfolio) = 0
    THEN Done(r, "returned", Returned(r.op, NONE))
    ELSE [r EXCEPT !.result = [items |-> portfolio, lastUpdated |-> now],
                   !.idx = 1, !.pc = "pricing"]

\* portfolioService.getPortfolio(runtime, userId) up to the pricing loop.
StartGetFor(p, owners, oks) ==
    /\ CanStart(p, MaxOps)
    /\ ops' = ops + 1
    /\ \E o \in owners, ok \in oks :
         /\ DbOutcome(ok)
         /\ \E portfolioMemory \in Lookup(ok, o, ops + 1, 1) :
              pr' = [pr EXCEPT ![p] =
                        GetLoaded(Begin(p, "get", o, <<>>, Num(0), Num(0)), portfolioMemory)]
    /\ UNCHANGED <<now, ticks, cache, extCalls, store, agentId>>
StartGet(p, oks) == StartGetFor(p, {o \in Owners : SameOwner(o)}, oks)

\* viewPortfolioAction.handler up to getPortfolio: hasPortfolio decides between
\* the "nothing yet" reply and the valuation.
StartView(p, oks) ==
    /\ CanStart(p, MaxOps)
    /\ ops' = ops + 1
    /\ \E o \in Owners, ok \in oks :
         /\ SameOwner(o)
         /\ DbOutcome(ok)
         /\ \E portfolioMemory \in Lookup(ok, o, ops + 1, 1) :
              LET r == Begin(p, "view", o, <<>>, Num(0), Num(0)) IN
              pr' = [pr EXCEPT ![p] =
                        IF Len(ItemsOf(portfolioMemory)) > 0
                        THEN [r EXCEPT !.pc = "viewGet"]
                        ELSE Done(r, "returned", [reply |-> "empty"])]
    /\ UNCHANGED <<now, ticks, cache, extCalls, store, agentId>>

\* The handler's getPortfolio call up to the pricing loop.
ViewGet(p, oks) ==
    /\ pr[p].pc = "viewGet"
    /\ \E ok \in oks :
         /\ DbOutcome(ok)
         /\ \E portfolioMemory \in Lookup(ok, pr[p].owner, pr[p].opId, 2) :
              pr' = [pr EXCEPT ![p] = GetLoaded(pr[p], portfolioMemory)]
    /\ UNCHANGED <<now, ticks, cache, extCalls, store, agentId, ops>>

\* Mutant: the valuation's timestamp is saved to the owner's record.
GetPrice_Persist(p) ==
    LET r0 == [pr[p] EXCEPT !.ident = pr[p].result.items[pr[p].idx].coinId]
        r == ApiRequest(r0, MarketsEndpoint(TOP_COUNT))
    IN /\ pr[p].pc = "pricing"
       /\ extCalls' = Issued(r)
       /\ pr' = [pr EXCEPT ![p] = IF r.pc = "cached" THEN AfterRequest(r, TRUE) ELSE r]
       /\ store' = [i \in 1..Len(store) |->
                       IF store[i].content.userId = pr[p].owner
                       THEN [store[i] EXCEPT !.content.lastUpdated = pr[p].result.lastUpdated]
                       ELSE store[i]]
       /\ UNCHANGED <<now, ticks, cache, agentId, ops, dbFailures>>

\* getPortfolio's loop: getCryptoByIdOrSymbol(item.coinId) is called.
GetPrice(p) ==
    LET r0 == [pr[p] EXCEPT !.ident = pr[p].result.items[pr[p].idx].coinId]
        r == ApiRequest(r0, MarketsEndpoint(TOP_COUNT))
    IN /\ pr[p].pc = "pricing"
       /\ extCalls' = Issued(r)
       /\ pr' = [pr EXCEPT ![p] = IF r.pc = "cached" THEN AfterRequest(r, TRUE) ELSE r]
       /\ UNCHANGED <<now, ticks, cache, store, agentId, ops, dbFailures>>

\* The price service alone: getTopCryptos and getCryptoByIdOrSymbol requests.
NextService ==
    \/ Tick
    \/ \E p \in Procs :
         \/ StartTop(p)
         \/ StartResolve(p)
         \/ StartDetails(p)
         \/ FetchOk(p)
         \/ FetchFail(p)

InitService == Init /\ agentId = QUERY_AGENT_ID

SpecService == InitService /\ [][NextService]_vars

\* The price service while time keeps passing.  Nothing makes fetch(url)
\* settle: apiRequest sets no timeout and passes no abort signal, so whether
\* and when FetchOk or FetchFail happens is up to the external source.
SpecServiceLive == SpecService /\ WF_vars(Tick)

\* The portfolio ledger over the price service.
Next ==
    \/ LedgerTick
    \/ \E p \in Procs :
         \/ StartAdd(p)
         \/ FetchOk(p)
         \/ FetchFail(p)
         \/ ReadMemory(p, NoFault)
         \/ SaveRead(p, NoFault)
         \/ SaveWrite(p, NoFault)
         \/ HasPortfolio(p, NoFault)
         \/ StartGet(p, NoFault)
         \/ GetPrice(p)

Spec == Init /\ [][Next]_vars

\* The ledger over a database whose calls may throw.
NextFaulty ==
    \/ LedgerTick
    \/ \E p \in Procs :
         \/ StartAdd(p)
         \/ FetchOk(p)
         \/ FetchFail(p)
         \/ ReadMemory(p, Faults)
         \/ SaveRead(p, Faults)
         \/ SaveWrite(p, Faults)
         \/ HasPortfolio(p, Faults)
         \/ StartGet(p, Faults)
         \/ GetPrice(p)

SpecFaulty == Init /\ [][NextFaulty]_vars

\* A portfolio as two earlier purchases left it: 2 bitcoin at 100, 1 ethereum
\* at 30.
SeedPortfolio ==
    MergedPortfolio(MergedPortfolio(<<>>, Bitcoin(140), Num(2), Num(100), 0),
                    Ethereum(30), Num(1), Num(30), 0)
\* The memory savePortfolio created for it.
SeedMemory(userId, agent) == CreatedMemory(0, userId, agent, SeedPortfolio, 0)

\* The process starts over a database that is empty or holds one owner's
\* portfolio.
InitValuation ==
    /\ now = 0
    /\ ticks = 0
    /\ cache = [k \in Keys |-> NONE]
    /\ extCalls = [k \in Keys |-> 0]
    /\ agentId \in AgentIds
    /\ store \in {<<>>} \cup {<<SeedMemory(o, agentId)>> : o \in Owners}
    /\ ops = 0
    /\ dbFailures = 0
    /\ pr = [p \in Procs |-> Idle]

\* Valuations of a stored portfolio: getPortfolio, hasPortfolio and the view
\* handler.
NextValuation ==
    \/ LedgerTick
    \/ \E p \in Procs :
         \/ HasPortfolio(p, NoFault)
         \/ StartGet(p, NoFault)
         \/ StartView(p, NoFault)
         \/ ViewGet(p, NoFault)
         \/ GetPrice(p)
         \/ FetchOk(p)
         \/ FetchFail(p)

SpecValuation == InitValuation /\ [][NextValuation]_vars

\* A portfolio as one earlier purchase left it: 1 ethereum at 30; and the memory
\* savePortfolio created for it.
EthPortfolio == MergedPortfolio(<<>>, Ethereum(30), Num(1), Num(30), 0)
EthMemory(userId, agent) == CreatedMemory(0, userId, agent, EthPortfolio, 0)
\* Purchases of two assets: coinId, quantity, purchasePrice.
TwoAssetPurchases == {<<(<<"B","T","C">>), 1, 100>>, <<s_ethereum, 1, 20>>}

\* The process starts over a database that is empty or holds one owner's
\* ethereum position.
InitMerge ==
    /\ now = 0
    /\ ticks = 0
    /\ cache = [k \in Keys |-> NONE]
    /\ extCalls = [k \in Keys |-> 0]
    /\ agentId \in AgentIds
    /\ store \in {<<>>} \cup {<<EthMemory(o, agentId)>> : o \in Owners}
    /\ ops = 0
    /\ dbFailures = 0
    /\ pr = [p \in Procs |-> Idle]

\* Merges of two assets into a stored portfolio.
NextMerge ==
    \/ LedgerTick
    \/ \E p \in Procs :
         \/ StartAddOf(p, TwoAssetPurchases)
         \/ FetchOk(p)
         \/ FetchFail(p)
         \/ ReadMemory(p, NoFault)
         \/ SaveRead(p, NoFault)
         \/ SaveWrite(p, NoFault)

SpecMerge == InitMerge /\ [][NextMerge]_vars

\* Two owners of UUID form, whose lookups find what their merges stored.
TwoOwners == {UUID_OWNER, UUID_OWNER_B}

\* The process starts under the queried agent over a database that is empty or
\* holds the first owner's ethereum position.
InitOwners ==
    /\ now = 0
    /\ ticks = 0
    /\ cache = [k \in Keys |-> NONE]
    /\ extCalls = [k \in Keys |-> 0]
    /\ agentId = QUERY_AGENT_ID
    /\ store \in {<<>>, <<EthMemory(UUID_OWNER, agentId)>>}
    /\ ops = 0
    /\ dbFailures = 0
    /\ pr = [p \in Procs |-> Idle]

\* Merges and valuations of two owners, in any order and concurrently.
NextOwners ==
    \/ LedgerTick
    \/ \E p \in Procs :
         \/ StartAddFor(p, TwoOwners, {<<(<<"B","T","C">>), 1, 100>>})
         \/ StartGetFor(p, TwoOwners, NoFault)
         \/ FetchOk(p)
         \/ FetchFail(p)
         \/ ReadMemory(p, NoFault)
         \/ SaveRead(p, NoFault)
         \/ SaveWrite(p, NoFault)
         \/ GetPrice(p)

SpecOwners == InitOwners /\ [][NextOwners]_vars

\* ------------------------------------------------------------------ claims
K100 == MarketsEndpoint(TOP_COUNT)

\* p called apiRequest in this step.
Requests(p) == pr'[p].rq # pr[p].rq
\* An operation of p returned in this step.
Returns(p) == pr'[p].pc = "done" /\ (pr[p].pc # "done" \/ pr'[p].opId # pr[p].opId)
\* The external call of p settled in this step.
Settles(p) == pr[p].pc = "fetching" /\ pr'[p].ext # "none" /\ pr'[p].opId = pr[p].opId
\* The ranked list p's resolver worked on in the step in which it returned
\* (empty when the external call failed).
ListUsed(p) ==
    IF pr'[p].ext = "ok" THEN cache'[K100].data
    ELSE IF pr'[p].ext = "failed" THEN <<>>
    ELSE cache[K100].data

\* C1: a request that finds an entry of its key less than 60000 ms old returns
\* that entry's payload, issues no external call and leaves the cache as it is;
\* a request that finds an entry 60000 ms old or older, or none, issues exactly
\* one external call, and external calls are issued by nothing else.
C1_CacheFreshness ==
    [][/\ \A p \in Procs : Requests(p) =>
            LET k == pr'[p].key
                e == cache[k]
                usable == e # NONE /\ now - e.timestamp < 60000
            IN /\ usable =>
                    /\ cache' = cache
                    /\ extCalls' = extCalls
                    /\ pr'[p].pc # "fetching"
                    /\ pr'[p].op = "top" => pr'[p].status = "returned" /\ pr'[p].result = e.data
                    /\ pr'[p].op \in {"resolve", "add"} =>
                          pr'[p].coin = FindCoin(e.data, toLowerCase(pr'[p].ident))
               /\ ~usable =>
                    /\ pr'[p].pc = "fetching"
                    /\ extCalls' = [extCalls EXCEPT ![k] = extCalls[k] + 1]
       /\ extCalls' # extCalls => \E p \in Procs : Requests(p)
      ]_vars

\* Two requests of one key, one after the other: the first, at time 0, cost an
\* external call; the second, 59999 ms later, was answered from the cache.
C1_Witness ==
    /\ ops = 2 /\ pr["r1"].pc = "done" /\ pr["r2"].pc = "idle"
    /\ pr["r1"].key = K100 /\ pr["r1"].ext = "none" /\ pr["r1"].status = "returned"
    /\ extCalls[K100] = 1 /\ extCalls[MarketsEndpoint(DEFAULT_COUNT)] = 0
    /\ now = CACHE_DURATION - 1 /\ cache[K100] # NONE /\ cache[K100].timestamp = 0

\* C7: when the external call of a request fails, the cache is what it was
\* before and the request fails: getTopCryptos throws and the resolver answers
\* null, whatever entry the cache holds.
C7_FailureLeavesCache ==
    [][\A p \in Procs : (Settles(p) /\ pr'[p].ext = "failed") =>
            /\ cache' = cache
            /\ pr'[p].op = "top" => pr'[p].status = "threw" /\ pr'[p].result = <<>>
            /\ pr'[p].op \in {"resolve", "add"} => pr'[p].coin = NONE
      ]_vars

\* A request found a stale entry, its external call failed, and the stale entry
\* is still there.
C7_Witness ==
    /\ ops = 2 /\ pr["r2"].pc = "idle"
    /\ pr["r1"].pc = "done" /\ pr["r1"].op = "top" /\ pr["r1"].ext = "failed"
    /\ pr["r1"].status = "threw"
    /\ cache[pr["r1"].key] # NONE
    /\ now - cache[pr["r1"].key].timestamp >= 60000

\* C8 as claimed: a successful external call stores its payload with the clock
\* value of the moment it is stored.
C8_StoresCurrentTimestamp ==
    [][\A p \in Procs : (Settles(p) /\ pr'[p].ext = "ok") =>
            /\ cache'[pr[p].key].timestamp = now
            /\ cache'[pr[p].key].data \in PayloadsOf(pr[p].key)
      ]_vars

\* C9: the resolver returns the first asset of the ranked list whose id is the
\* lowercased identifier or whose lowercased symbol is; null exactly when no
\* asset of the list matches.
C9_ResolverMatchRule ==
    [][\A p \in Procs : (Returns(p) /\ pr'[p].op = "resolve") =>
            LET list == ListUsed(p)
                wanted == toLowerCase(pr'[p].ident)
                match(i) == list[i].id = wanted \/ toLowerCase(list[i].symbol) = wanted
            IN /\ pr'[p].status = "returned"
               /\ \/ /\ pr'[p].result = NONE
                     /\ \A i \in 1..Len(list) : ~match(i)
                  \/ \E i \in 1..Len(list) :
                        /\ match(i)
                        /\ \A j \in 1..(i - 1) : ~match(j)
                        /\ pr'[p].result = list[i]
      ]_vars

\* "BTC" resolved to Bitcoin, matched by its symbol, in a list that ranks an
\* asset of id "btc" lower.
C9_Witness ==
    \E p \in Procs :
        /\ pr[p].pc = "done" /\ pr[p].op = "resolve" /\ pr[p].ident = <<"B","T","C">>
        /\ pr[p].result # NONE /\ pr[p].result.id = s_bitcoin
        /\ cache[K100] # NONE /\ cache[K100].data = ListB /\ extCalls[K100] = 1

\* C10 as claimed: resolving an identifier gives what resolving its trimmed,
\* lowercased form gives against the same list.
C10_ResolverNormalization ==
    [][\A p \in Procs : (Returns(p) /\ pr'[p].op = "resolve") =>
            pr'[p].result = FindCoin(ListUsed(p), toLowerCase(trim(pr'[p].ident)))
      ]_vars

\* C2: a merge into a position the call found, of quantity q0 and average cost
\* c0, stores for that asset the quantity q0 + q and the average cost
\* (q0*c0 + q*p) / (q0 + q), and returns that position.
C2_WeightedAverageMerge ==
    [][\A p \in Procs :
          (pr[p].pc = "saveWrite" /\ Returns(p) /\ pr'[p].result # NONE
             /\ pr[p].existingItem # NONE) =>
            LET e == pr[p].existingItem
                q == pr[p].quantity.n
                c == pr[p].purchasePrice.n
                a == e.quantity.n
                b == e.quantity.d
                cn == e.purchasePrice.n
                cd == e.purchasePrice.d
                good(item) ==
                    /\ item.coinId = e.coinId
                    /\ item.quantity.n * b = (a + q * b) * item.quantity.d
                    /\ item.quantity.d # 0
                    /\ IF cd # 0 /\ a + q * b # 0
                       THEN /\ item.purchasePrice.d # 0
                            /\ item.purchasePrice.n * (cd * (a + q * b))
                                 = item.purchasePrice.d * (a * cn + q * c * b * cd)
                       ELSE item.purchasePrice.d = 0
            IN /\ good(pr'[p].result)
               /\ \E i \in 1..Len(store') :
                     /\ store'[i].content.userId = pr[p].owner
                     /\ \E k \in 1..Len(store'[i].content.items) :
                           store'[i].content.items[k] = pr'[p].result
      ]_vars

\* 1 @ 100 merged with 3 @ 140: the stored position is 4 @ 130.
C2_Witness ==
    \E i \in 1..Len(store) : \E k \in 1..Len(store[i].content.items) :
        /\ store[i].content.items[k].quantity = Num(4)
        /\ store[i].content.items[k].purchasePrice = Num(130)
        /\ pr["r1"].existingItem # NONE /\ pr["r1"].existingItem.quantity = Num(1)

\* What a lookup for userId issued now would find.
Found(userId) == PortfolioMemories(store, userId, ops + 1, 1)
NumGeq(x, y) == IsFinite(x) /\ IsFinite(y) /\ x.n * y.d >= y.n * x.d
Other(p) == CHOOSE o \in Procs : o # p

\* C3 as claimed, for an owner of UUID form under the agent the lookups query:
\* when two merges of one asset for the owner have both returned a position,
\* the portfolio found for the owner holds at least both quantities.
C3_NoLostUpdate ==
    (/\ agentId = QUERY_AGENT_ID /\ dbFailures = 0
     /\ \A p \in Procs :
           /\ pr[p].pc = "done" /\ pr[p].op = "add" /\ pr[p].result # NONE
           /\ pr[p].owner = UUID_OWNER)
    => /\ Found(UUID_OWNER) # {}
       /\ \A i \in Found(UUID_OWNER) :
             \E k \in 1..Len(store[i].content.items) :
                /\ store[i].content.items[k].coinId = s_bitcoin
                /\ NumGeq(store[i].content.items[k].quantity,
                          NumAdd(pr["r1"].quantity, pr["r2"].quantity))

\* C4 as claimed: once addToPortfolio has returned a position and nothing else
\* runs, a lookup for the owner finds a portfolio holding that position.
C4_ReadAfterWrite ==
    \A p \in Procs :
        (/\ pr[p].pc = "done" /\ pr[p].op = "add" /\ pr[p].result # NONE
         /\ pr[Other(p)].pc = "idle" /\ dbFailures = 0)
        => /\ Found(pr[p].owner) # {}
           /\ \A i \in Found(pr[p].owner) :
                 \E k \in 1..Len(store[i].content.items) :
                    store[i].content.items[k] = pr[p].result

\* C5 as claimed: addToPortfolio with quantity <= 0 or purchasePrice <= 0
\* returns no position and writes nothing.
C5_InvalidPurchaseRejected ==
    \A p \in Procs :
        (/\ pr[p].pc = "done" /\ pr[p].op = "add"
         /\ NumLeqZero(pr[p].quantity) \/ NumLeqZero(pr[p].purchasePrice))
        => pr[p].result = NONE /\ pr[p].wrote = 0

\* C6: addToPortfolio whose identifier did not resolve returns null having
\* written nothing, and the store changes only on behalf of a request whose
\* identifier, lowercased, is the id or the lowercased symbol of its coin.
C6_FailedResolveWritesNothing ==
    [][/\ \A p \in Procs :
            (Returns(p) /\ pr'[p].op = "add" /\ pr'[p].coin = NONE) =>
                /\ pr'[p].result = NONE
                /\ pr'[p].wrote = 0
                /\ store' = store
       /\ store' # store =>
            \E p \in Procs :
                /\ pr[p].pc = "saveWrite" /\ pr'[p].wrote = pr[p].wrote + 1
                /\ pr[p].coin # NONE
                /\ \/ pr[p].coin.id = toLowerCase(pr[p].ident)
                   \/ toLowerCase(pr[p].coin.symbol) = toLowerCase(pr[p].ident)
      ]_vars

\* A merge of "doge" has returned null while the owner's stored portfolio, made
\* by an earlier merge, is still there.
C6_Witness ==
    \E p \in Procs :
        /\ pr[p].pc = "done" /\ pr[p].op = "add" /\ pr[p].ident = <<"d","o","g","e">>
        /\ pr[p].ext = "none" /\ pr[p].coin = NONE /\ pr[p].result = NONE
        /\ Len(store) = 1 /\ store[1].content.userId = pr[p].owner

\* Two resolver results name the same asset, or are both null.
SameAsset(a, b) == (a = NONE /\ b = NONE) \/ (a # NONE /\ b # NONE /\ a.id = b.id)
\* The identifier is Bitcoin's id or its ticker, in any casing.
NamesBitcoin(ident) == toLowerCase(ident) \in {s_bitcoin, s_btc}

\* C11 as claimed: two resolves issued within one cache duration give the same
\* asset, or null both times, when their identifiers are the same, and when
\* one is Bitcoin's ticker and the other its id.
C11_ResolverDeterminism ==
    (/\ now < CACHE_DURATION
     /\ \A p \in Procs : pr[p].pc = "done" /\ pr[p].op = "resolve"
     /\ \/ pr["r1"].ident = pr["r2"].ident
        \/ NamesBitcoin(pr["r1"].ident) /\ NamesBitcoin(pr["r2"].ident))
    => SameAsset(pr["r1"].result, pr["r2"].result)

\* C12 as claimed: a resolver or detail request whose external call failed
\* returns its failure value, null, to its caller; it does not throw.
C12_FailuresAreReturned ==
    \A p \in Procs :
        (pr[p].pc = "done" /\ pr[p].op \in {"resolve", "details"} /\ pr[p].ext = "failed")
        => pr[p].status = "returned" /\ pr[p].result = NONE

\* C13 as claimed: the user is told that no such asset was found only when the
\* identifier matched no asset of a list that was fetched; a merge whose
\* external call failed is reported otherwise.
C13_FailureKindsDistinct ==
    \A p \in Procs :
        (pr[p].pc = "done" /\ pr[p].op = "add" /\ AddReply(pr[p].result) = "notFound")
        => pr[p].ext # "failed" /\ pr[p].coin = NONE

\* The item without the live price fields.
Stored(item) == [f \in DOMAIN item \ {"currentPrice", "priceChange24h"} |-> item[f]]
\* getPortfolio of p finished the quote of one position in this step.
Quoted(p) ==
    /\ pr[p].op = "get" /\ pr[p].pc \in {"pricing", "fetching"}
    /\ pr'[p].opId = pr[p].opId /\ pr'[p].pc \in {"pricing", "done"}
    /\ pr'[p] # pr[p]

\* C14: getPortfolio enters the valuation with the positions the lookup finds,
\* in their order; each quote leaves every position in place, gives the quoted
\* position the live price fields exactly when the list used holds a match for
\* its asset id, and changes no other position; so the portfolio returned has
\* every position, priced or not.
C14_PartialDegradation ==
    [][\A p \in Procs :
         /\ (pr'[p].opId # pr[p].opId /\ pr'[p].op = "get") =>
               IF Found(pr'[p].owner) = {}
               THEN pr'[p].pc = "done" /\ pr'[p].result = NONE
               ELSE /\ pr'[p].pc = "pricing"
                    /\ \E i \in Found(pr'[p].owner) :
                          pr'[p].result.items = store[i].content.items
         /\ Quoted(p) =>
               LET i == pr[p].idx
                   old == pr[p].result.items
                   new == pr'[p].result.items
                   list == ListUsed(p)
                   resolved == \E k \in 1..Len(list) :
                                  \/ list[k].id = toLowerCase(old[i].coinId)
                                  \/ toLowerCase(list[k].symbol) = toLowerCase(old[i].coinId)
               IN /\ pr'[p].result # NONE
                  /\ Len(new) = Len(old)
                  /\ \A j \in 1..Len(old) : j # i => new[j] = old[j]
                  /\ Stored(new[i]) = Stored(old[i])
                  /\ HasPrice(new[i]) <=> resolved
                  /\ (pr'[p].pc = "done") <=> (i = Len(old))
      ]_vars

\* getPortfolio returned both stored positions although the quote of the first
\* failed: the first without the live price fields, the second with them.
C14_Witness ==
    \E p \in Procs :
        /\ pr[p].pc = "done" /\ pr[p].op = "get" /\ pr[p].result # NONE
        /\ Len(pr[p].result.items) = 2
        /\ pr[p].result.items[1].coinId = s_bitcoin /\ ~HasPrice(pr[p].result.items[1])
        /\ pr[p].result.items[2].coinId = s_ethereum /\ HasPrice(pr[p].result.items[2])

\* getPortfolio of p made its lookup in this step.
GetLooksUp(p) == pr'[p].opId # pr[p].opId /\ pr'[p].op = "get"

\* C15 as claimed: getPortfolio for an owner without a stored portfolio returns
\* the empty result, null, and writes nothing; a getPortfolio whose store read
\* failed returns something else.
C15_EmptyIsNotAnError ==
    [][\A p \in Procs : GetLooksUp(p) =>
          /\ store' = store
          /\ (dbFailures' = dbFailures /\ Found(pr'[p].owner) = {}) =>
                pr'[p].pc = "done" /\ pr'[p].result = NONE
          /\ dbFailures' # dbFailures => ~(pr'[p].pc = "done" /\ pr'[p].result = NONE)
      ]_vars

\* The view handler of p left the pricing loop and replied in this step.
ViewReplies(p) ==
    /\ Returns(p) /\ pr'[p].op = "view" /\ pr'[p].opId = pr[p].opId
    /\ pr[p].pc \in {"pricing", "fetching"}
\* The figures of a line follow from its quantity q, average cost c and price.
RowFigures(row) ==
    LET q == row.quantity
        c == row.purchasePrice
        inv == row.invested
        cv == row.currentValue
        pl == row.profitLoss
        pct == row.profitLossPercent
    IN /\ inv.d # 0 /\ inv.n * (q.d * c.d) = q.n * c.n * inv.d
       /\ cv.d # 0 /\ cv.n * q.d = q.n * row.currentPrice * cv.d
       /\ pl.d # 0 /\ pl.n * (cv.d * inv.d) = (cv.n * inv.d - inv.n * cv.d) * pl.d
       /\ IF inv.n # 0
          THEN pct.d # 0 /\ pct.n * (pl.d * inv.n) = pct.d * (pl.n * inv.d * 100)
          ELSE pct.d = 0
\* The price the list gives the asset coinId: that of its first match.
Quote(list, coinId, price) ==
    \E m \in 1..Len(list) :
        /\ CoinMatches(list[m], toLowerCase(coinId))
        /\ \A j \in 1..(m - 1) : ~CoinMatches(list[j], toLowerCase(coinId))
        /\ list[m].current_price = price

\* C16: every line of the view is a position with a live price, shown with
\* investedValue = quantity * averageCost, currentValue = quantity *
\* currentPrice, profitLoss = currentValue - investedValue and
\* profitLossPercent = profitLoss / investedValue * 100.
C16_PositionValuation ==
    [][\A p \in Procs : ViewReplies(p) =>
          LET old == pr[p].result.items
              i == pr[p].idx
              v == pr'[p].result
          IN /\ v.reply = "portfolio"
             /\ \A k \in 1..Len(v.rows) :
                   /\ RowFigures(v.rows[k])
                   /\ \E j \in 1..Len(old) :
                         /\ v.rows[k].symbol = old[j].symbol
                         /\ v.rows[k].quantity = old[j].quantity
                         /\ v.rows[k].purchasePrice = old[j].purchasePrice
                         /\ IF j < i
                            THEN HasPrice(old[j]) /\ v.rows[k].currentPrice = old[j].currentPrice
                            ELSE Quote(ListUsed(p), old[j].coinId, v.rows[k].currentPrice)
             /\ \A j \in 1..(i - 1) : HasPrice(old[j]) =>
                   \E k \in 1..Len(v.rows) : v.rows[k].symbol = old[j].symbol
      ]_vars

\* 2 bitcoin bought at 100 and quoted at 150: invested 200, worth 300, profit
\* 100, that is 50 percent.
C16_Witness ==
    \E p \in Procs :
        /\ pr[p].pc = "done" /\ pr[p].op = "view" /\ pr[p].result.reply = "portfolio"
        /\ \E k \in 1..Len(pr[p].result.rows) :
              LET row == pr[p].result.rows[k] IN
              /\ row.symbol = <<"B","T","C">> /\ row.quantity = Num(2)
              /\ row.purchasePrice = Num(100) /\ row.currentPrice = 150
              /\ row.invested = Num(200) /\ row.currentValue = Num(300)
              /\ row.profitLoss = Num(100) /\ row.profitLossPercent = Num(50)

\* The sum of quantity * averageCost over the positions.
RECURSIVE CostOf(_)
CostOf(items) ==
    IF items = <<>> THEN Num(0)
    ELSE NumAdd(CostOf(Tail(items)), NumMul(items[1].quantity, items[1].purchasePrice))
\* The sum of the lines' current values.
RECURSIVE WorthOf(_)
WorthOf(rows) ==
    IF rows = <<>> THEN Num(0) ELSE NumAdd(WorthOf(Tail(rows)), rows[1].currentValue)

\* C17 as claimed: the view's totalInvested is the sum of quantity *
\* averageCost over all positions of the portfolio, priced or not;
\* totalCurrentValue is the sum of the priced positions' current values and
\* totalProfitLoss their difference.
C17_ValuationAggregates ==
    [][\A p \in Procs : ViewReplies(p) =>
          LET v == pr'[p].result IN
          /\ v.totalInvested = CostOf(pr[p].result.items)
          /\ v.totalCurrentValue = WorthOf(v.rows)
          /\ v.totalProfitLoss = NumSub(v.totalCurrentValue, v.totalInvested)
      ]_vars

\* C18 as claimed: an apiRequest that has issued its external call eventually
\* completes, with the payload or with a failure, whatever the external source
\* does.
C18_NoOperationBlocks ==
    \A p \in Procs : (pr[p].pc = "fetching") ~> (pr[p].pc # "fetching")

\* C19: no stored portfolio, hence none a lookup returns, holds two positions
\* of one asset id, under whatever identifiers the purchases were entered.
C19_OnePositionPerAsset ==
    \A i \in 1..Len(store) :
        \A j, k \in 1..Len(store[i].content.items) :
            j # k => store[i].content.items[j].coinId # store[i].content.items[k].coinId

\* A purchase entered as "bitcoin" was merged into the position that a
\* purchase entered as "BTC" had opened: the lookup finds one position, of both
\* quantities.
C19_Witness ==
    /\ pr["r1"].pc = "done" /\ pr["r1"].op = "add" /\ pr["r1"].ident = s_bitcoin
    /\ pr["r1"].result # NONE /\ pr["r1"].existingItem # NONE
    /\ pr["r1"].existingItem.quantity = Num(1)
    /\ Found(pr["r1"].owner) # {}
    /\ \A i \in Found(pr["r1"].owner) :
          /\ Len(store[i].content.items) = 1
          /\ store[i].content.items[1].coinId = s_bitcoin
          /\ store[i].content.items[1].quantity = Num(4)

\* The sums of q and of q * p over the purchases of a history.
RECURSIVE SumQuantity(_)
SumQuantity(h) == IF h = <<>> THEN Num(0) ELSE NumAdd(SumQuantity(Tail(h)), h[1][2])
RECURSIVE SumCost(_)
SumCost(h) == IF h = <<>> THEN Num(0) ELSE NumAdd(SumCost(Tail(h)), NumMul(h[1][2], h[1][3]))

\* C20 as claimed: when all operations so far ran one after another and the
\* last was a successful merge, after merges (q_1, p_1) ... (q_n, p_n) of
\* bitcoin, all with q_i > 0 and p_i > 0, the owner has a stored portfolio and
\* each holds the position with quantity q_1 + ... + q_n and quantity *
\* averageCost = q_1 * p_1 + ... + q_n * p_n.
C20_CostBasisConserved ==
    LET r == pr["r1"]
        h == r.merged
    IN (/\ pr["r2"].pc = "idle"
        /\ r.pc = "done" /\ r.op = "add" /\ r.result # NONE
        /\ \A n \in 1..Len(h) :
              h[n][1] = s_bitcoin /\ ~NumLeqZero(h[n][2]) /\ ~NumLeqZero(h[n][3]))
       => /\ \E i \in 1..Len(store) : store[i].content.userId = r.owner
          /\ \A i \in 1..Len(store) : store[i].content.userId = r.owner =>
                \E k \in 1..Len(store[i].content.items) :
                    LET item == store[i].content.items[k] IN
                    /\ item.coinId = s_bitcoin
                    /\ item.quantity = SumQuantity(h)
                    /\ NumMul(item.quantity, item.purchasePrice) = SumCost(h)

\* x > 0 as JavaScript compares (false for NaN).
NumPositive(x) == IF IsFinite(x) THEN x.n > 0 ELSE x.n = 1

\* C21 as claimed: every position of every stored portfolio has quantity > 0
\* and averageCost > 0.
C21_PositionsStayPositive ==
    \A i \in 1..Len(store) : \A k \in 1..Len(store[i].content.items) :
        /\ NumPositive(store[i].content.items[k].quantity)
        /\ NumPositive(store[i].content.items[k].purchasePrice)

\* A merge of p into a position it found was written in this step.
MergeWritten(p) ==
    /\ pr[p].pc = "saveWrite" /\ Returns(p) /\ pr'[p].result # NONE
    /\ pr[p].existingItem # NONE

\* C22 as claimed: after a merge into an existing position the owner's stored
\* position of that asset id carries the symbol and the name of the asset
\* resolved for this merge and the time of this merge as its purchaseDate.
C22_MergeRefreshesDisplayFields ==
    [][\A p \in Procs : MergeWritten(p) =>
          \E i \in 1..Len(store') :
             /\ store'[i].content.userId = pr[p].owner
             /\ \E k \in 1..Len(store'[i].content.items) :
                   LET item == store'[i].content.items[k] IN
                   /\ item.coinId = pr[p].existingItem.coinId
                   /\ item.coinId = pr[p].coin.id
                   /\ item.symbol = toUpperCase(pr[p].coin.symbol)
                   /\ item.name = pr[p].coin.name
                   /\ item.purchaseDate = now
      ]_vars

\* A merge of p was written in this step.
Written(p) == pr[p].pc = "saveWrite" /\ Returns(p) /\ pr'[p].result # NONE

\* C23 as claimed: the position a successful addToPortfolio returns is the one
\* stored for the owner after its write; when the merge found no position of
\* the asset, that position has the purchase's quantity and price, and the
\* write leaves every other stored position of the owner as it was.
C23_ReturnsPostMergePosition ==
    [][\A p \in Procs : Written(p) =>
          LET r == pr[p]
              res == pr'[p].result
          IN /\ \E i \in 1..Len(store') :
                   /\ store'[i].content.userId = r.owner
                   /\ \E k \in 1..Len(store'[i].content.items) :
                         store'[i].content.items[k] = res
             /\ r.existingItem = NONE =>
                   /\ res.coinId = r.coin.id
                   /\ res.quantity = r.quantity
                   /\ res.purchasePrice = r.purchasePrice
                   /\ \A i \in 1..Len(store) : store[i].content.userId = r.owner =>
                         \A k \in 1..Len(store[i].content.items) :
                            store[i].content.items[k].coinId # r.coin.id =>
                               /\ store'[i].id = store[i].id
                               /\ \E m \in 1..Len(store'[i].content.items) :
                                     store'[i].content.items[m] = store[i].content.items[k]
      ]_vars

\* C24 as claimed: the store never holds two portfolio records of one owner, so
\* no merge creates a second record for an owner who has one.
C24_OneDocumentPerOwner ==
    \A i, j \in 1..Len(store) :
        (/\ i # j
         /\ store[i].content.action = "CRYPTO_PORTFOLIO"
         /\ store[j].content.action = "CRYPTO_PORTFOLIO")
        => store[i].content.userId # store[j].content.userId

\* C25 as claimed: concurrent fetches of one key converge; in particular the
\* timestamp of a key's entry never moves backwards, so the entry of a fetch
\* that started later is never replaced by that of one that started earlier.
C25_CacheWritersConverge ==
    [][\A k \in Keys : cache[k] # NONE =>
          /\ cache'[k] # NONE
          /\ cache'[k].timestamp >= cache[k].timestamp
      ]_vars

K10 == MarketsEndpoint(DEFAULT_COUNT)

\* C26: the entry of a key changes only when a successful external call for
\* that key is stored, and external calls for a key are issued only by
\* requests of that key; a request is answered from the cache exactly when the
\* entry of its own key is less than 60000 ms old, whatever the key and
\* whatever the other entries, and then with that entry's payload.
C26_KeysIndependentOneTTL ==
    [][/\ \A k \in Keys :
            /\ cache'[k] # cache[k] =>
                  \E p \in Procs : Settles(p) /\ pr'[p].ext = "ok" /\ pr[p].key = k
            /\ extCalls'[k] # extCalls[k] =>
                  \E p \in Procs : Requests(p) /\ pr'[p].key = k
       /\ \A p \in Procs : Requests(p) =>
            LET k == pr'[p].key
                usable == cache[k] # NONE /\ now - cache[k].timestamp < 60000
            IN /\ usable <=> pr'[p].pc # "fetching"
               /\ (usable /\ pr'[p].op \in {"top", "details"}) =>
                     pr'[p].result = cache[k].data
               /\ (usable /\ pr'[p].op = "resolve") =>
                     pr'[p].result = FindCoin(cache[k].data, toLowerCase(pr'[p].ident))
      ]_vars

\* The top-100 list was fetched at time 0; 59999 ms later, while that entry
\* was still usable, a request for the top-10 list cost an external call of
\* its own, and both entries are kept, each with its own timestamp.
C26_Witness ==
    /\ cache[K100] # NONE /\ cache[K100].timestamp = 0
    /\ cache[K10] # NONE /\ cache[K10].timestamp = CACHE_DURATION - 1
    /\ extCalls[K100] = 1 /\ extCalls[K10] = 1
    /\ cache[DetailsEndpoint(s_bitcoin)] = NONE

\* C27 as claimed: while operations run one after another, whether or not a
\* database call throws, every step leaves every stored position of an owner
\* stored for that owner with a quantity at least as large.
C27_HoldingsNeverShrink ==
    [][(pr["r2"].pc = "idle" /\ pr'["r2"].pc = "idle") =>
          \A i \in 1..Len(store) : \A k \in 1..Len(store[i].content.items) :
             \E j \in 1..Len(store') :
                /\ store'[j].content.userId = store[i].content.userId
                /\ \E m \in 1..Len(store'[j].content.items) :
                      /\ store'[j].content.items[m].coinId = store[i].content.items[k].coinId
                      /\ NumGeq(store'[j].content.items[m].quantity,
                                store[i].content.items[k].quantity)
      ]_vars

\* C28: no step of getPortfolio or hasPortfolio changes the store, which
\* changes only when a merge writes; and no stored position ever carries the
\* live price fields, which exist in the returned copy alone.
C28_ValuationReadOnly ==
    [][/\ \A p \in Procs :
            (pr'[p] # pr[p] /\ pr'[p].op \in {"get", "has"}) => store' = store
       /\ store' # store =>
            \E p \in Procs : pr[p].op = "add" /\ pr[p].pc = "saveWrite" /\ pr'[p] # pr[p]
       /\ \A i \in 1..Len(store') : \A k \in 1..Len(store'[i].content.items) :
            ~HasPrice(store'[i].content.items[k])
      ]_vars

\* getPortfolio has returned the owner's position with a live price, a cache
\* duration after the merge that stored it; the stored record is the merge's.
C28_Witness ==
    \E p \in Procs :
        /\ pr[p].pc = "done" /\ pr[p].op = "get" /\ pr[p].result # NONE
        /\ HasPrice(pr[p].result.items[1])
        /\ now = CACHE_DURATION
        /\ Found(pr[p].owner) # {}
        /\ \A i \in Found(pr[p].owner) :
              /\ store[i].content.items[1] = Stored(pr[p].result.items[1])
              /\ store[i].content.lastUpdated = 0

\* The stored portfolios of an owner.
PortfoliosOf(userId) ==
    {store[i].content.items : i \in {j \in 1..Len(store) : store[j].content.userId = userId}}

\* C29: a step of an operation for one owner leaves every record of another
\* owner as it is; and what the operation's lookup returned is a record of its
\* own owner: the portfolio a merge merges into, the record savePortfolio
\* updates and the positions getPortfolio values.
C29_OwnerIsolation ==
    [][\A p \in Procs : pr'[p] # pr[p] =>
          LET r == pr'[p] IN
          /\ \A i \in 1..Len(store) : store[i].content.userId # r.owner =>
                i <= Len(store') /\ store'[i] = store[i]
          /\ (pr[p].pc = "read" /\ r.pc = "saveRead") =>
                \E items \in {<<>>} \cup PortfoliosOf(r.owner) :
                    r.portfolio = MergedPortfolio(items, r.coin, r.quantity, r.purchasePrice, now)
          /\ (pr[p].pc = "saveRead" /\ r.memOp = "update") =>
                \E i \in 1..Len(store) :
                    store[i].id = r.mem.id /\ store[i].content.userId = r.owner
          /\ (r.opId # pr[p].opId /\ r.op = "get" /\ r.pc = "pricing") =>
                r.result.items \in PortfoliosOf(r.owner)
      ]_vars

\* The second owner's merge created a record of its own beside the first
\* owner's; then the first owner's merge updated the first owner's record, and
\* the second owner's is as it was.
C29_Witness ==
    /\ ops = 2 /\ Len(store) = 2
    /\ pr["r1"].pc = "done" /\ pr["r1"].op = "add" /\ pr["r1"].owner = UUID_OWNER
    /\ pr["r1"].result # NONE /\ pr["r2"].pc = "idle"
    /\ store[1].content.userId = UUID_OWNER /\ Len(store[1].content.items) = 2
    /\ store[2].content.userId = UUID_OWNER_B /\ Len(store[2].content.items) = 1
    /\ store[2].content.items[1].quantity = Num(1)

====
